---- MODULE Spec2Model ----
(***************************************************************************)
(* Model of the cosmos_genesis Python SDK:                                 *)
(*   - QueryBuilder (src/cosmos_genesis/query.py): the six builder fields, *)
(*     the six chained mutators and build();                               *)
(*   - CosmosClient (src/cosmos_genesis/client.py): the textual rewrite of *)
(*     query_galaxy and the submit / poll / fetch loop of _execute_query.  *)
(* Builder strings and error messages are TLA+ strings (only equality and  *)
(* concatenation are needed); SQL texts that the client searches and       *)
(* rewrites are sequences of one-character strings.                        *)
(***************************************************************************)
EXTENDS Integers, Sequences, FiniteSets, TLC

VARIABLES
    \* QueryBuilder instance (query.py:24-30)
    _select_fields, _from_table, _where_conditions, _order_by, _limit, _offset,
    \* the most recent builder call (again: the call before it was build() too)
    \* and what it returned or raised
    lastCall, ret,
    \* one CosmosClient call (client.py:86-134, 180-236)
    self, pc, galaxy_id, query, universe_time, sql,
    query_id, start_time, now, state, reason, results, pages, dicts, error, requests,
    \* what the call has seen: every status state received, and the clock at the last one
    observed, seen_at,
    \* the exception a step of the call raised into the except clause, if any, and
    \* what the service answered to the call's own submission (id, clock)
    thrown, own,
    \* construction (client.py:28-59): the arguments, the COSMOS_API_KEY environment
    \* value and the boto3 clients created
    ctor, environ, boto,
    \* a second call in flight on the same client: which call is running, and the
    \* locals of the one that is not
    cur, other

bfields == <<_select_fields, _from_table, _where_conditions, _order_by, _limit, _offset>>
bvars == <<_select_fields, _from_table, _where_conditions, _order_by, _limit, _offset,
           lastCall, ret>>
cvars == <<self, pc, galaxy_id, query, universe_time, sql,
           query_id, start_time, now, state, reason, results, pages, dicts, error, requests,
           observed, seen_at, thrown, own, ctor, environ, boto, cur, other>>
\* what a step of a call leaves alone: the construction and the other call
outside == <<ctor, environ, boto, cur, other>>
vars == <<bvars, cvars>>

-----------------------------------------------------------------------------
(* Python's Optional: None is the empty sequence, a value v is <<v>>.       *)
None == <<>>
Some(v) == <<v>>

-----------------------------------------------------------------------------
(* Bounds of the builder model.                                             *)
MaxFields == 2
MaxConds == 2

FieldArgs == {<<>>, <<"a">>, <<"b">>, <<"a", "b">>}
Tables == {"t", "u", ""}
Conditions == {"x>1", "y<2"}
OrderArgs == {<<"z">>, <<"z", "DESC">>, <<"y", "ASC">>}
LimitCounts == {0, 5}
OffsetCounts == {2, -1}

(* str.join: the items separated by sep.                                    *)
RECURSIVE Join(_, _)
Join(sep, items) ==
    IF items = <<>> THEN ""
    ELSE IF Len(items) = 1 THEN items[1]
    ELSE items[1] \o sep \o Join(sep, Tail(items))

(* query.py:24-30 *)
InitBuilder ==
    /\ _select_fields = <<>>
    /\ _from_table = None
    /\ _where_conditions = <<>>
    /\ _order_by = None
    /\ _limit = None
    /\ _offset = None
    /\ lastCall = [op |-> "__init__", args |-> <<>>, again |-> FALSE]
    /\ ret = [kind |-> "self", value |-> ""]

ReturnSelf == [kind |-> "self", value |-> ""]

(* query.py:42 list.extend *)
ExtendDedup(list, items) ==
    list \o SelectSeq(items, LAMBDA f : \A i \in 1..Len(list) : list[i] # f)
Extend(list, items) == list \o items

(* query.py:32-43 *)
select(fields) ==
    /\ Len(_select_fields) + Len(fields) <= MaxFields
    /\ _select_fields' = Extend(_select_fields, fields)
    /\ lastCall' = [op |-> "select", args |-> fields, again |-> FALSE]
    /\ ret' = ReturnSelf
    /\ UNCHANGED <<_from_table, _where_conditions, _order_by, _limit, _offset>>
    /\ UNCHANGED cvars

(* query.py:45-56 *)
from_table(table) ==
    /\ _from_table' = Some(table)
    /\ lastCall' = [op |-> "from_table", args |-> <<table>>, again |-> FALSE]
    /\ ret' = ReturnSelf
    /\ UNCHANGED <<_select_fields, _where_conditions, _order_by, _limit, _offset>>
    /\ UNCHANGED cvars

(* query.py:68 list.append *)
AppendItem(list, item) == Append(list, item)

(* query.py:58-69 *)
where(condition) ==
    /\ Len(_where_conditions) < MaxConds
    /\ _where_conditions' = AppendItem(_where_conditions, condition)
    /\ lastCall' = [op |-> "where", args |-> <<condition>>, again |-> FALSE]
    /\ ret' = ReturnSelf
    /\ UNCHANGED <<_select_fields, _from_table, _order_by, _limit, _offset>>
    /\ UNCHANGED cvars

(* query.py:71-83: args is <<field>> or <<field, direction>>; the direction *)
(* parameter defaults to "ASC".                                             *)
order_by(args) ==
    LET field == args[1]
        direction == IF Len(args) = 2 THEN args[2] ELSE "ASC"
    IN  /\ _order_by' = Some(field \o " " \o direction)
        /\ lastCall' = [op |-> "order_by", args |-> args, again |-> FALSE]
        /\ ret' = ReturnSelf
        /\ UNCHANGED <<_select_fields, _from_table, _where_conditions, _limit, _offset>>
        /\ UNCHANGED cvars

(* query.py:85-96 *)
limit(count) ==
    /\ _limit' = Some(count)
    /\ lastCall' = [op |-> "limit", args |-> <<count>>, again |-> FALSE]
    /\ ret' = ReturnSelf
    /\ UNCHANGED <<_select_fields, _from_table, _where_conditions, _order_by, _offset>>
    /\ UNCHANGED cvars

(* query.py:98-109 *)
offset(count) ==
    /\ _offset' = Some(count)
    /\ lastCall' = [op |-> "offset", args |-> <<count>>, again |-> FALSE]
    /\ ret' = ReturnSelf
    /\ UNCHANGED <<_select_fields, _from_table, _where_conditions, _order_by, _limit>>
    /\ UNCHANGED cvars

(* Python truthiness of an Optional[str]: None and "" are falsy.            *)
Truthy(opt) == opt # None /\ opt[1] # ""

(* query.py:126-148: the rendered clauses, in the order they are appended.  *)
QueryPartsOffsetFirst(fields, table, conds, ob, lim, off) ==
    <<"SELECT " \o Join(", ", fields)>>
    \o <<"FROM " \o table[1]>>
    \o (IF conds # <<>> THEN <<"WHERE " \o Join(" AND ", conds)>> ELSE <<>>)
    \o (IF Truthy(ob) THEN <<"ORDER BY " \o ob[1]>> ELSE <<>>)
    \o (IF off # None THEN <<"OFFSET " \o ToString(off[1])>> ELSE <<>>)
    \o (IF lim # None THEN <<"LIMIT " \o ToString(lim[1])>> ELSE <<>>)
QueryParts(fields, table, conds, ob, lim, off) ==
    <<"SELECT " \o Join(", ", fields)>>
    \o <<"FROM " \o table[1]>>
    \o (IF conds # <<>> THEN <<"WHERE " \o Join(" AND ", conds)>> ELSE <<>>)
    \o (IF Truthy(ob) THEN <<"ORDER BY " \o ob[1]>> ELSE <<>>)
    \o (IF lim # None THEN <<"LIMIT " \o ToString(lim[1])>> ELSE <<>>)
    \o (IF off # None THEN <<"OFFSET " \o ToString(off[1])>> ELSE <<>>)

(* query.py:121-148: what build() returns or raises for a builder state.    *)
BuildNoValidation(fields, table, conds, ob, lim, off) ==
    IF table = None
    THEN [kind |-> "str", value |-> "SELECT " \o Join(", ", fields) \o " FROM None"]
    ELSE [kind |-> "str", value |-> Join(" ", QueryParts(fields, table, conds, ob, lim, off))]
Build(fields, table, conds, ob, lim, off) ==
    IF fields = <<>> THEN [kind |-> "ValueError", value |-> "SELECT fields required"]
    ELSE IF ~Truthy(table) THEN [kind |-> "ValueError", value |-> "FROM table required"]
    ELSE [kind |-> "str", value |-> Join(" ", QueryParts(fields, table, conds, ob, lim, off))]

(* The builder fields after build(): build() assigns to none of them        *)
(* (query.py:111-148).                                                      *)
AfterBuildConsuming == <<_select_fields, _from_table, <<>>, _order_by, _limit, _offset>>
AfterBuild == bfields

(* query.py:111-148, and __str__ (query.py:150-152), which is build().      *)
build ==
    /\ ret' = Build(_select_fields, _from_table, _where_conditions, _order_by, _limit, _offset)
    /\ _select_fields' = AfterBuild[1]
    /\ _from_table' = AfterBuild[2]
    /\ _where_conditions' = AfterBuild[3]
    /\ _order_by' = AfterBuild[4]
    /\ _limit' = AfterBuild[5]
    /\ _offset' = AfterBuild[6]
    /\ lastCall' = [op |-> "build", args |-> <<>>, again |-> lastCall.op = "build"]
    /\ UNCHANGED cvars

NextBuilder ==
    \/ \E fields \in FieldArgs : select(fields)
    \/ \E table \in Tables : from_table(table)
    \/ \E condition \in Conditions : where(condition)
    \/ \E args \in OrderArgs : order_by(args)
    \/ \E count \in LimitCounts : limit(count)
    \/ \E count \in OffsetCounts : offset(count)
    \/ build

-----------------------------------------------------------------------------
(* SQL texts are sequences of one-character strings, so that str.upper,     *)
(* the `in` substring test and str.replace are computed as Python computes  *)
(* them.                                                                    *)
LowerLetters == <<"a", "b", "c", "d", "e", "f", "g", "h", "i", "j", "k", "l", "m", "n", "o", "p", "q", "r", "s", "t", "u", "v", "w", "x", "y", "z">>
UpperLetters == <<"A", "B", "C", "D", "E", "F", "G", "H", "I", "J", "K", "L", "M", "N", "O", "P", "Q", "R", "S", "T", "U", "V", "W", "X", "Y", "Z">>
Digits == <<"0", "1", "2", "3", "4", "5", "6", "7", "8", "9">>

(* str.upper on one character *)
UpperChar(c) ==
    IF \E i \in 1..Len(LowerLetters) : LowerLetters[i] = c
    THEN UpperLetters[CHOOSE i \in 1..Len(LowerLetters) : LowerLetters[i] = c]
    ELSE c

(* str.upper *)
Upper(s) == [i \in 1..Len(s) |-> UpperChar(s[i])]

(* sub occurs in s at position i *)
OccursAt(s, sub, i) ==
    /\ i >= 1
    /\ i + Len(sub) - 1 <= Len(s)
    /\ SubSeq(s, i, i + Len(sub) - 1) = sub

(* str.find, 1-based; 0 when sub does not occur in s *)
Find(s, sub) ==
    IF \E i \in 1..Len(s) : OccursAt(s, sub, i)
    THEN CHOOSE i \in 1..Len(s) :
            /\ OccursAt(s, sub, i)
            /\ \A j \in 1..(i - 1) : ~OccursAt(s, sub, j)
    ELSE 0

(* Python's `sub in s` *)
Contains(s, sub) == Find(s, sub) # 0

(* str.replace(old, new, 1) *)
ReplaceFirst(s, old, new) ==
    LET i == Find(s, old)
    IN  IF i = 0 THEN s
        ELSE SubSeq(s, 1, i - 1) \o new \o SubSeq(s, i + Len(old), Len(s))

(* str.replace(old, new): every non-overlapping occurrence, left to right *)
RECURSIVE ReplaceAll(_, _, _)
ReplaceAll(s, old, new) ==
    LET i == Find(s, old)
    IN  IF i = 0 THEN s
        ELSE SubSeq(s, 1, i - 1) \o new
             \o ReplaceAll(SubSeq(s, i + Len(old), Len(s)), old, new)

(* str(n) for an integer n *)
RECURSIVE NatToChars(_)
NatToChars(n) ==
    IF n < 10 THEN <<Digits[n + 1]>>
    ELSE NatToChars(n \div 10) \o <<Digits[(n % 10) + 1]>>
IntToChars(n) == IF n < 0 THEN <<"-">> \o NatToChars(-n) ELSE NatToChars(n)

(* client.py:111,117,122,127: f"galaxy_id = '{galaxy_id}'" *)
Predicate(gid) == <<"g", "a", "l", "a", "x", "y", "_", "i", "d", " ", "=", " ", "'">> \o gid \o <<"'">>

KW_WHERE == <<"W", "H", "E", "R", "E">>
(* client.py:114 *)
Keywords == <<<<"L", "I", "M", "I", "T">>, <<"O", "R", "D", "E", "R", " ", "B", "Y">>, <<"G", "R", "O", "U", "P", " ", "B", "Y">>>>

(* the same with the appended clause glued to the end of the query *)
InjectGalaxyNoSpace(q, gid) ==
    IF Contains(Upper(q), KW_WHERE)
    THEN ReplaceFirst(q, KW_WHERE, <<"W", "H", "E", "R", "E", " ">> \o Predicate(gid) \o <<" ", "A", "N", "D">>)
    ELSE IF \E k \in 1..Len(Keywords) : Contains(Upper(q), Keywords[k])
    THEN LET k == CHOOSE k \in 1..Len(Keywords) :
                    /\ Contains(Upper(q), Keywords[k])
                    /\ \A j \in 1..(k - 1) : ~Contains(Upper(q), Keywords[j])
         IN  ReplaceFirst(q, Keywords[k],
                          <<"W", "H", "E", "R", "E", " ">> \o Predicate(gid) \o <<" ">> \o Keywords[k])
    ELSE q \o <<"W", "H", "E", "R", "E", " ">> \o Predicate(gid)

(* client.py:109-122: inject the galaxy_id filter *)
InjectGalaxy(q, gid) ==
    IF Contains(Upper(q), KW_WHERE)
    THEN ReplaceFirst(q, KW_WHERE, <<"W", "H", "E", "R", "E", " ">> \o Predicate(gid) \o <<" ", "A", "N", "D">>)
    ELSE IF \E k \in 1..Len(Keywords) : Contains(Upper(q), Keywords[k])
    THEN LET k == CHOOSE k \in 1..Len(Keywords) :
                    /\ Contains(Upper(q), Keywords[k])
                    /\ \A j \in 1..(k - 1) : ~Contains(Upper(q), Keywords[j])
         IN  ReplaceFirst(q, Keywords[k],
                          <<"W", "H", "E", "R", "E", " ">> \o Predicate(gid) \o <<" ">> \o Keywords[k])
    ELSE q \o <<" ", "W", "H", "E", "R", "E", " ">> \o Predicate(gid)

(* client.py:124-129: add the universe_time filter *)
AddUniverseTime(q, gid, ut) ==
    IF ut > 0
    THEN ReplaceAll(q, Predicate(gid),
                    Predicate(gid) \o <<" ", "A", "N", "D", " ", "u", "n", "i", "v", "e", "r", "s", "e", "_", "t", "i", "m", "e", " ", "=", " ">> \o IntToChars(ut))
    ELSE q

(* client.py:109-129: the SQL query_galaxy hands to _execute_query *)
Rewrite(gid, q, ut) == AddUniverseTime(InjectGalaxy(q, gid), gid, ut)

-----------------------------------------------------------------------------
(* Bounds of the client model: the clock is an integer number of seconds.   *)
MaxTimeout == 2
MaxDelay == 1
MaxClock == 5
MaxPages == 2
MaxFrags == 2

Timeouts == 0..MaxTimeout
ExecIds == {"q1", "q2"}
Terminal == {"SUCCEEDED", "FAILED", "CANCELLED"}
States == {"QUEUED", "RUNNING"} \cup Terminal
(* Status.StateChangeReason is optional in a status response *)
Reasons == {None, Some("SYNTAX_ERROR: line 1")}
(* what a call into the query service (or anything under the try) may raise *)
Raisable == {[type |-> "ClientError", msg |-> "Throttled"],
             [type |-> "QueryError", msg |-> "inner"],
             [type |-> "AuthenticationError", msg |-> "expired token"]}

(* a result cell is a mapping that may lack the key VarCharValue *)
Cell(v) == [VarCharValue |-> v]
NullCell == <<>>
HeaderRow == <<Cell("name"), Cell("mass")>>
PageSet == { <<>>,
             <<HeaderRow>>,
             <<HeaderRow, <<Cell("sol"), NullCell>> >>,
             <<HeaderRow, <<Cell("sol"), NullCell>>, <<Cell("vega"), Cell("2")>> >>,
             << <<Cell("sol"), NullCell>>, <<Cell("vega"), Cell("2")>> >>,
             << <<Cell("n")>> >>,
             << <<Cell("n")>>, <<Cell("7")>>, <<NullCell>> >> }

(* every row of a result set has the same number of cells *)
SameWidth(ps) ==
    \A i, j \in 1..Len(ps) : \A r \in 1..Len(ps[i]), t \in 1..Len(ps[j]) :
        Len(ps[i][r]) = Len(ps[j][t])

(* caller SQL: a base statement followed by up to MaxFrags fragments *)
BaseQuery == <<"S", "E", "L", "E", "C", "T", " ", "*", " ", "F", "R", "O", "M", " ", "s", "t", "a", "r">>
Fragments == { <<" ", "W", "H", "E", "R", "E", " ", "m", "a", "s", "s", ">", "1", "0">>,
               <<" ", "w", "h", "e", "r", "e", " ", "m", "a", "s", "s", ">", "1", "0">>,
               <<" ", "W", "h", "e", "r", "e", " ", "t", ">", "1", " ", "W", "H", "E", "R", "E", " ", "m", ">", "2">>,
               <<" ", "L", "I", "M", "I", "T", " ", "5">>,
               <<" ", "l", "i", "m", "i", "t", " ", "5">>,
               <<" ", "O", "R", "D", "E", "R", " ", "B", "Y", " ", "z">>,
               <<" ", "G", "R", "O", "U", "P", " ", "B", "Y", " ", "k">>,
               <<" ", "A", "N", "D", " ", "g", "a", "l", "a", "x", "y", "_", "i", "d", " ", "=", " ", "'", "g", "1", "'">> }
RECURSIVE QueriesOf(_)
QueriesOf(n) ==
    IF n = 0 THEN {BaseQuery}
    ELSE QueriesOf(n - 1) \cup {q \o f : q \in QueriesOf(n - 1), f \in Fragments}
Queries == QueriesOf(MaxFrags)
GalaxyIds == {<<"g", "1">>, <<"g", "2">>}
UniverseTimes == {0, 5, 12}

(* client.py:28-59: the client after a successful construction *)
CosmosClient(api_key, region, timeout_, database) ==
    [api_key |-> api_key, region |-> region, timeout |-> timeout_, database |-> database,
     results_bucket |-> "cosmos-query-results-" \o region]

(* the locals of a call that has not started *)
IdleLocals ==
    [pc |-> "idle", galaxy_id |-> <<>>, query |-> <<>>, universe_time |-> 0, sql |-> <<>>,
     query_id |-> None, start_time |-> 0, state |-> None, reason |-> None,
     observed |-> <<>>, seen_at |-> 0, results |-> <<>>, pages |-> <<>>, dicts |-> None,
     error |-> None, requests |-> <<>>, thrown |-> None, own |-> None]

(* client.py:55-56 *)
BotoClients(region) ==
    <<[service |-> "athena", region_name |-> region],
      [service |-> "s3", region_name |-> region]>>

(* no call has started *)
InitCalls ==
    /\ galaxy_id = <<>>
    /\ query = <<>>
    /\ universe_time = 0
    /\ sql = <<>>
    /\ query_id = None
    /\ start_time = 0
    /\ now = 0
    /\ state = None
    /\ reason = None
    /\ observed = <<>>
    /\ seen_at = 0
    /\ results = <<>>
    /\ pages = <<>>
    /\ dicts = None
    /\ error = None
    /\ requests = <<>>
    /\ thrown = None
    /\ own = None
    /\ cur = 1
    /\ other = IdleLocals

(* a client constructed with an api_key argument and the default region and *)
(* database (client.py:28-59)                                               *)
InitClient ==
    /\ \E t \in Timeouts :
            /\ ctor = [api_key |-> Some("key"), region |-> "us-east-1", timeout |-> t,
                       database |-> "cosmological_production"]
            /\ self = CosmosClient("key", "us-east-1", t, "cosmological_production")
    /\ environ = None
    /\ boto = BotoClients("us-east-1")
    /\ pc = "idle"
    /\ InitCalls

Init == InitBuilder /\ InitClient

(* the same with one timeout, where the timeout plays no part *)
InitOneTimeout == Init /\ self.timeout = 0

(* client.py:86-131: query_galaxy up to the call of _execute_query *)
query_galaxy(gid, q, ut) ==
    /\ pc = "idle"
    /\ galaxy_id' = gid
    /\ query' = q
    /\ universe_time' = ut
    /\ sql' = Rewrite(gid, q, ut)
    /\ pc' = "submit"
    /\ UNCHANGED <<self, query_id, start_time, now, state, reason, observed, seen_at,
                   results, pages, dicts, error, requests, thrown, own>>
    /\ UNCHANGED outside
    /\ UNCHANGED bvars

(* the same without the isinstance test of client.py:234 *)
ExceptWrapAll(e) ==
    [type |-> "QueryError", msg |-> "Query execution failed: " \o e.msg]

(* client.py:233-236: the except clause of _execute_query *)
Except(e) ==
    IF e.type \in {"QueryError", "AuthenticationError"} THEN e
    ELSE [type |-> "QueryError", msg |-> "Query execution failed: " \o e.msg]

(* client.py:195-206: submit, keep the execution id, read the clock *)
StartQueryExecution ==
    /\ pc = "submit"
    /\ requests' = Append(requests,
            [op |-> "start_query_execution", QueryString |-> sql,
             Database |-> self.database,
             OutputLocation |-> "s3://" \o self.results_bucket \o "/queries/"])
    /\ \/ \E id \in ExecIds, d \in 0..MaxDelay :
            \* the service gives every submission an id of its own
            /\ other.own # None => id # other.own[1].id
            /\ now + d <= MaxClock
            /\ now' = now + d
            /\ query_id' = Some(id)
            /\ start_time' = now'
            /\ own' = Some([id |-> id, at |-> now'])
            /\ pc' = "poll"
            /\ UNCHANGED <<error, thrown>>
       \/ \E e \in Raisable :
            /\ thrown' = Some(e)
            /\ error' = Some(Except(e))
            /\ pc' = "raised"
            /\ UNCHANGED <<now, query_id, start_time, own>>
    /\ UNCHANGED <<self, galaxy_id, query, universe_time, sql, state, reason, observed,
                   seen_at, results, pages, dicts>>
    /\ UNCHANGED outside
    /\ UNCHANGED bvars

(* client.py:214-217 *)
FailureMessageNoReason(rs) == "Query failed: Unknown error"
FailureMessage(rs) == "Query failed: " \o (IF rs = None THEN "Unknown error" ELSE rs[1])

(* client.py:208-217: one status check and the branch on the state *)
GetQueryExecution ==
    /\ pc = "poll"
    /\ requests' = Append(requests,
            [op |-> "get_query_execution", QueryExecutionId |-> query_id[1]])
    /\ \/ \E st \in States, rs \in Reasons, d \in 0..MaxDelay :
            /\ rs # None => st \in {"FAILED", "CANCELLED"}
            /\ now + d <= MaxClock
            /\ now' = now + d
            /\ state' = Some(st)
            /\ reason' = rs
            /\ observed' = Append(observed, st)
            /\ seen_at' = now'
            /\ IF st = "SUCCEEDED"
               THEN pc' = "fetch" /\ UNCHANGED error
               ELSE IF st \in {"FAILED", "CANCELLED"}
               THEN /\ error' = Some(Except([type |-> "QueryError", msg |-> FailureMessage(rs)]))
                    /\ pc' = "raised"
               ELSE pc' = "check" /\ UNCHANGED error
            /\ UNCHANGED thrown
       \/ \E e \in Raisable :
            /\ thrown' = Some(e)
            /\ error' = Some(Except(e))
            /\ pc' = "raised"
            /\ UNCHANGED <<now, state, reason, observed, seen_at>>
    /\ UNCHANGED <<self, galaxy_id, query, universe_time, sql, query_id, start_time,
                   results, pages, dicts, own>>
    /\ UNCHANGED outside
    /\ UNCHANGED bvars

(* client.py:219: time.time() - start_time *)
ElapsedSwapped == start_time - now
Elapsed == now - start_time

(* a loop that never gives up *)
TimedOutNever == FALSE

(* client.py:219 *)
TimedOut == Elapsed > self.timeout

(* client.py:220 *)
TimeoutMessageElapsed == "Query timeout after " \o ToString(Elapsed) \o "s"
TimeoutMessage == "Query timeout after " \o ToString(self.timeout) \o "s"

(* client.py:219-220: the timeout check after a non-terminal state *)
CheckTimeout ==
    /\ pc = "check"
    /\ IF TimedOut
       THEN /\ error' = Some(Except([type |-> "QueryError", msg |-> TimeoutMessage]))
            /\ pc' = "raised"
       ELSE pc' = "sleep" /\ UNCHANGED error
    /\ UNCHANGED <<self, galaxy_id, query, universe_time, sql, query_id, start_time, now,
                   state, reason, observed, seen_at, results, pages, dicts, requests,
                   thrown, own>>
    /\ UNCHANGED outside
    /\ UNCHANGED bvars

(* a loop that retries: after the sleep the query is submitted again *)
SleepResubmit ==
    /\ pc = "sleep"
    /\ \E d \in 1..(1 + MaxDelay) :
            /\ now + d <= MaxClock
            /\ now' = now + d
    /\ pc' = "submit"
    /\ UNCHANGED <<self, galaxy_id, query, universe_time, sql, query_id, start_time,
                   state, reason, observed, seen_at, results, pages, dicts, error, requests,
                   thrown, own>>
    /\ UNCHANGED outside
    /\ UNCHANGED bvars

(* client.py:222: time.sleep(1) returns after at least one second *)
Sleep ==
    /\ pc = "sleep"
    /\ \E d \in 1..(1 + MaxDelay) :
            /\ now + d <= MaxClock
            /\ now' = now + d
    /\ pc' = "poll"
    /\ UNCHANGED <<self, galaxy_id, query, universe_time, sql, query_id, start_time,
                   state, reason, observed, seen_at, results, pages, dicts, error, requests,
                   thrown, own>>
    /\ UNCHANGED outside
    /\ UNCHANGED bvars

(* client.py:229: col.get("VarCharValue") *)
CellValue(col) == IF "VarCharValue" \in DOMAIN col THEN Some(col.VarCharValue) ELSE None

(* the same without the [1:] of client.py:228 *)
DecodePageKeepFirst(page) ==
    [i \in 1..Len(page) |->
        [c \in 1..Len(page[i]) |-> CellValue(page[i][c])]]

(* client.py:228-229: the rows of one page after its first row *)
DecodePage(page) ==
    [i \in 1..(IF Len(page) = 0 THEN 0 ELSE Len(page) - 1) |->
        [c \in 1..Len(page[i + 1]) |-> CellValue(page[i + 1][c])]]

(* the aliases counted from 1 (col1, col2, ...) *)
ColNameFromOne(i) == "col" \o ToString(i + 1)

(* client.py:255 *)
ColName(i) == "col" \o ToString(i)

(* client.py:238-257 *)
rows_to_dicts(rows) ==
    IF rows = <<>> THEN <<>>
    ELSE LET num_cols == Len(rows[1])
             Zip(row) ==
                LET n == IF Len(row) < num_cols THEN Len(row) ELSE num_cols
                IN  [k \in {ColName(i) : i \in 0..(n - 1)} |->
                        row[(CHOOSE i \in 0..(n - 1) : ColName(i) = k) + 1]]
         IN  [r \in 1..Len(rows) |-> Zip(rows[r])]

(* client.py:224-231 and 134: one page of the paginator; after the last     *)
(* page _execute_query returns and query_galaxy maps the rows.              *)
GetQueryResults ==
    /\ pc = "fetch"
    /\ requests' = Append(requests,
            [op |-> "get_query_results", QueryExecutionId |-> query_id[1]])
    /\ \/ \E page \in PageSet, more \in BOOLEAN :
            /\ SameWidth(Append(pages, page))
            /\ more => Len(pages) + 1 < MaxPages
            /\ pages' = Append(pages, page)
            /\ results' = results \o DecodePage(page)
            /\ IF more
               THEN pc' = "fetch" /\ UNCHANGED dicts
               ELSE pc' = "returned" /\ dicts' = Some(rows_to_dicts(results'))
            /\ UNCHANGED <<error, thrown>>
       \/ \E e \in Raisable :
            /\ thrown' = Some(e)
            /\ error' = Some(Except(e))
            /\ pc' = "raised"
            /\ UNCHANGED <<pages, results, dicts>>
    /\ UNCHANGED <<self, galaxy_id, query, universe_time, sql, query_id, start_time, now,
                   state, reason, observed, seen_at, own>>
    /\ UNCHANGED outside
    /\ UNCHANGED bvars

(* one call of query_galaxy with a fixed caller SQL: the poll / fetch loop  *)
Next ==
    \/ query_galaxy(<<"g", "1">>, BaseQuery, 0)
    \/ StartQueryExecution
    \/ GetQueryExecution
    \/ CheckTimeout
    \/ Sleep
    \/ GetQueryResults

Spec == Init /\ [][Next]_vars

(* query_galaxy over every caller SQL, galaxy and time, up to the submission *)
NextRewrite ==
    \/ \E gid \in GalaxyIds, q \in Queries, ut \in UniverseTimes : query_galaxy(gid, q, ut)
    \/ StartQueryExecution

SpecRewrite == InitOneTimeout /\ [][NextRewrite]_vars

(* the builder alone *)
SpecBuilder == InitOneTimeout /\ [][NextBuilder]_vars

-----------------------------------------------------------------------------
(* Helpers of the properties below.                                         *)
Last(s) == s[Len(s)]
CountOps(op) == Cardinality({i \in 1..Len(requests) : requests[i].op = op})
RECURSIVE CountOcc(_, _)
CountOcc(s, sub) ==
    LET i == Find(s, sub)
    IN  IF i = 0 THEN 0 ELSE 1 + CountOcc(SubSeq(s, i + Len(sub), Len(s)), sub)
Ended == pc \in {"returned", "raised"}

-----------------------------------------------------------------------------
(* QueryBuilder                                                             *)

(* The text build() is specified to return for the current builder fields:  *)
(* SELECT and FROM always, each optional clause exactly when a mutator gave *)
(* it data, in the order WHERE, ORDER BY, LIMIT, OFFSET, one space apart.   *)
Rendered ==
    "SELECT " \o Join(", ", _select_fields) \o " FROM " \o _from_table[1]
    \o (IF Len(_where_conditions) > 0
        THEN " WHERE " \o Join(" AND ", _where_conditions) ELSE "")
    \o (IF _order_by # None THEN " ORDER BY " \o _order_by[1] ELSE "")
    \o (IF _limit # None THEN " LIMIT " \o ToString(_limit[1]) ELSE "")
    \o (IF _offset # None THEN " OFFSET " \o ToString(_offset[1]) ELSE "")

(* C7: whenever build() returns a string, it is exactly SELECT <fields      *)
(* joined by ", "> FROM <table> followed by the WHERE, ORDER BY, LIMIT and  *)
(* OFFSET clauses, in that order and one space apart, each present iff a    *)
(* mutator call gave it data; fields a, b and table t alone give exactly    *)
(* "SELECT a, b FROM t".                                                    *)
C7_BuildRendersClausesInOrder ==
    (lastCall.op = "build" /\ ret.kind = "str") =>
        /\ ret.value = Rendered
        /\ (/\ _select_fields = <<"a", "b">>
            /\ _from_table = Some("t")
            /\ _where_conditions = <<>>
            /\ _order_by = None
            /\ _limit = None
            /\ _offset = None) => ret.value = "SELECT a, b FROM t"

(* C7 witness: the builder of the documented example has been built.        *)
C7_Witness ==
    /\ lastCall.op = "build"
    /\ ret = [kind |-> "str",
              value |-> "SELECT a FROM t WHERE x>1 AND y<2 ORDER BY z ASC LIMIT 5 OFFSET 2"]

(* C8: a build() call made while no field is selected or no table is set   *)
(* raises ValueError and leaves the six builder fields as they were; every  *)
(* mutator call returns the builder and never raises.                       *)
C8_ValidationOnlyAtBuild ==
    [][/\ (lastCall'.op = "build" /\ (_select_fields = <<>> \/ _from_table = None)) =>
              (ret'.kind = "ValueError" /\ UNCHANGED bfields)
       /\ lastCall'.op # "build" => ret'.kind = "self"]_vars

(* C8 witness: build() has failed on a builder that mutators were called    *)
(* on (fields, a condition and a limit), but never from_table.              *)
C8_Witness ==
    /\ lastCall.op = "build"
    /\ ret.kind = "ValueError"
    /\ _select_fields # <<>>
    /\ _where_conditions # <<>>
    /\ _limit # None
    /\ _from_table = None

(* C9: build() changes none of the six builder fields, and a build() call   *)
(* that directly follows a build() call returns or raises the same.         *)
C9_BuildIdempotent ==
    [][lastCall'.op = "build" =>
          /\ UNCHANGED bfields
          /\ lastCall.op = "build" => ret' = ret]_vars

(* C9 witness: build() was called twice in a row on a builder with fields,  *)
(* a table and conditions.                                                  *)
C9_Witness ==
    /\ lastCall.op = "build"
    /\ lastCall.again
    /\ ret.kind = "str"
    /\ Len(_where_conditions) = 2

(* C10: a new builder is empty, and every mutator call changes its own      *)
(* field only: select appends its arguments in order (duplicates kept),     *)
(* where appends its condition, and from_table, order_by (direction ASC     *)
(* when omitted), limit and offset overwrite their field with the argument  *)
(* of this call.                                                            *)
C10_MutatorsUpdateOwnField ==
    /\ (lastCall.op = "__init__" =>
            /\ _select_fields = <<>> /\ _where_conditions = <<>>
            /\ _from_table = None /\ _order_by = None
            /\ _limit = None /\ _offset = None)
    /\ [][LET op == lastCall'.op
              args == lastCall'.args
          IN  /\ op = "select" =>
                    /\ _select_fields' = _select_fields \o args
                    /\ UNCHANGED <<_from_table, _where_conditions, _order_by, _limit, _offset>>
              /\ op = "from_table" =>
                    /\ _from_table' = <<args[1]>>
                    /\ UNCHANGED <<_select_fields, _where_conditions, _order_by, _limit, _offset>>
              /\ op = "where" =>
                    /\ _where_conditions' = _where_conditions \o <<args[1]>>
                    /\ UNCHANGED <<_select_fields, _from_table, _order_by, _limit, _offset>>
              /\ op = "order_by" =>
                    /\ _order_by' = <<args[1] \o " " \o (IF Len(args) > 1 THEN args[2] ELSE "ASC")>>
                    /\ UNCHANGED <<_select_fields, _from_table, _where_conditions, _limit, _offset>>
              /\ op = "limit" =>
                    /\ _limit' = <<args[1]>>
                    /\ UNCHANGED <<_select_fields, _from_table, _where_conditions, _order_by, _offset>>
              /\ op = "offset" =>
                    /\ _offset' = <<args[1]>>
                    /\ UNCHANGED <<_select_fields, _from_table, _where_conditions, _order_by, _limit>>
         ]_vars

(* C10 witness: a duplicate field, two conditions in call order, a table    *)
(* set twice and an order_by without direction have all happened.           *)
C10_Witness ==
    /\ _select_fields = <<"a", "a">>
    /\ _where_conditions = <<"y<2", "x>1">>
    /\ _from_table = Some("u")
    /\ _order_by = Some("z ASC")
    /\ _offset = Some(-1)
    /\ lastCall.op = "limit"

-----------------------------------------------------------------------------
(* query_galaxy: the rewrite                                                *)

(* C1: the SQL of every submission contains galaxy_id = '<galaxy_id>' for   *)
(* the galaxy_id of the call, whatever the caller's SQL.                    *)
C1_PredicateInSubmittedSql ==
    \A i \in 1..Len(requests) :
        requests[i].op = "start_query_execution" =>
            Contains(requests[i].QueryString, Predicate(galaxy_id))

(* C2: when the caller's SQL holds WHERE in any letter case (and no time    *)
(* filter is asked for), the effective SQL is the caller's SQL with the     *)
(* predicate and AND inserted right after the first WHERE token, everything *)
(* else verbatim.                                                           *)
C2_PredicateAfterFirstWhere ==
    (pc # "idle" /\ universe_time = 0 /\ Contains(Upper(query), KW_WHERE)) =>
        LET i == Find(Upper(query), KW_WHERE)
        IN  sql = SubSeq(query, 1, i + 4)
                  \o <<" ">> \o Predicate(galaxy_id) \o <<" ", "A", "N", "D">>
                  \o SubSeq(query, i + 5, Len(query))

(* the time clause of a call *)
TimeClause == <<" ", "A", "N", "D", " ", "u", "n", "i", "v", "e", "r", "s", "e", "_", "t", "i", "m", "e", " ", "=", " ">> \o IntToChars(universe_time)

(* C3: for every caller SQL, a universe_time > 0 puts exactly one clause    *)
(* AND universe_time = <value> into the effective SQL, right after the      *)
(* partition predicate; a universe_time of 0 adds no such clause.           *)
C3_ExactlyOneTimeClause ==
    pc # "idle" =>
        IF universe_time > 0
        THEN /\ CountOcc(sql, TimeClause) = 1
             /\ Contains(sql, Predicate(galaxy_id) \o TimeClause)
        ELSE sql = InjectGalaxy(query, galaxy_id)

-----------------------------------------------------------------------------
(* _execute_query: the poll loop                                            *)

(* the timeout QueryError of a call *)
TimeoutError ==
    Some([type |-> "QueryError",
          msg |-> "Query timeout after " \o ToString(self.timeout) \o "s"])

(* the clock had passed the timeout when the last status response came in *)
LateAtLastStatus == observed # <<>> /\ seen_at - start_time > self.timeout

(* C4 as stated: once the elapsed time exceeds the timeout, the call ends   *)
(* with the timeout QueryError whatever state the status check reported     *)
(* (SUCCEEDED included), and returns no rows.                               *)
C4_TimeoutWhateverTheState ==
    (LateAtLastStatus /\ Ended) =>
        (pc = "raised" /\ error = TimeoutError /\ dicts = None)

(* C4, amended: a status check that reports a non-terminal state after the  *)
(* timeout has elapsed ends the call with the timeout QueryError and no     *)
(* rows; a terminal state is acted on before the clock is read, so the      *)
(* timeout QueryError is never raised over a terminal state.                *)
C4_TimeoutAfterNonTerminalState ==
    /\ (LateAtLastStatus /\ state[1] \notin Terminal /\ pc # "check") =>
            (pc = "raised" /\ error = TimeoutError /\ dicts = None /\ results = <<>>)
    /\ (error = TimeoutError /\ pc = "raised") =>
            (state # None /\ state[1] \notin Terminal)
    /\ (LateAtLastStatus /\ state = Some("SUCCEEDED")) => error # TimeoutError

(* C4 witness: the call timed out after a second non-terminal status.       *)
C4_Witness ==
    /\ pc = "raised"
    /\ error = TimeoutError
    /\ Len(observed) >= 2
    /\ seen_at - start_time > self.timeout

FailedError ==
    Some([type |-> "QueryError",
          msg |-> IF reason = None THEN "Query failed: Unknown error"
                  ELSE "Query failed: " \o reason[1]])

(* C6 as stated: the first terminal status decides the outcome: SUCCEEDED   *)
(* leads to the fetch and a normal return; FAILED or CANCELLED raises       *)
(* QueryError with the reported reason (or 'Unknown error') and no fetch.   *)
C6_TerminalStatusDecidesOutcome ==
    (Ended /\ observed # <<>> /\ Last(observed) \in Terminal) =>
        IF Last(observed) = "SUCCEEDED"
        THEN pc = "returned" /\ CountOps("get_query_results") >= 1
        ELSE pc = "raised" /\ error = FailedError /\ CountOps("get_query_results") = 0

(* C6, amended: after SUCCEEDED the call goes to the fetch and returns      *)
(* normally unless a fetch request itself raises; after FAILED or CANCELLED *)
(* it has raised QueryError with the reported reason (or 'Unknown error')   *)
(* and sent no fetch. No status check follows the first terminal status.    *)
C6_TerminalStatusThenFetchOrError ==
    (observed # <<>> /\ Last(observed) \in Terminal) =>
        /\ \A i \in 1..(Len(observed) - 1) : observed[i] \notin Terminal
        /\ CountOps("get_query_execution") = Len(observed)
        /\ IF Last(observed) = "SUCCEEDED"
           THEN \/ pc = "fetch"
                \/ pc = "returned" /\ dicts # None /\ error = None
                                   /\ CountOps("get_query_results") >= 1
                \/ pc = "raised" /\ Last(requests).op = "get_query_results"
           ELSE pc = "raised" /\ error = FailedError /\ CountOps("get_query_results") = 0

(* C6 witness: a FAILED status with a reason, after a non-terminal one.     *)
C6_Witness ==
    /\ pc = "raised"
    /\ Len(observed) >= 2
    /\ Last(observed) = "FAILED"
    /\ reason # None
    /\ error = FailedError

(***************************************************************************)
(* query_galaxy without WHERE (client.py:112-122)                          *)
(***************************************************************************)

(* the place in Keywords of the keyword the loop of client.py:115-119 stops at: *)
(* the first, in the order LIMIT, ORDER BY, GROUP BY, that the upper-cased text *)
(* contains; 0 when it contains none                                            *)
ChosenKeyword(q) ==
    IF \E k \in 1..Len(Keywords) : Contains(Upper(q), Keywords[k])
    THEN CHOOSE k \in 1..Len(Keywords) :
            /\ Contains(Upper(q), Keywords[k])
            /\ \A j \in 1..(k - 1) : ~Contains(Upper(q), Keywords[j])
    ELSE 0

(* s with new put in immediately before position i *)
InsertBefore(s, i, new) == SubSeq(s, 1, i - 1) \o new \o SubSeq(s, i, Len(s))

(* the query has no WHERE in any letter case (the test of client.py:110) *)
NoWhere == ~Contains(Upper(query), KW_WHERE)

\* C11: when the SQL contains no WHERE but contains LIMIT, ORDER BY or GROUP BY, the
\* first of these in the priority order LIMIT, ORDER BY, GROUP BY is chosen and
\* "WHERE <partition predicate> " is inserted immediately before the first occurrence
\* of the chosen keyword, the rest of the query being preserved verbatim.
C11_WhereBeforeChosenKeyword ==
    (pc # "idle" /\ universe_time = 0 /\ NoWhere /\ ChosenKeyword(query) # 0)
        => LET kw == Keywords[ChosenKeyword(query)]
           IN  sql = InsertBefore(query, Find(Upper(query), kw),
                                  <<"W", "H", "E", "R", "E", " ">> \o Predicate(galaxy_id) \o <<" ">>)

InjectedWhere == <<"W", "H", "E", "R", "E", " ">> \o Predicate(galaxy_id)

(* every LIMIT, ORDER BY and GROUP BY of the query is written in upper case, so that *)
(* the replace of client.py:117 finds the keyword the test of client.py:116 found    *)
KeywordsUpperCase ==
    \A k \in 1..Len(Keywords) : \A j \in 1..Len(query) :
        OccursAt(Upper(query), Keywords[k], j) => OccursAt(query, Keywords[k], j)

\* C20: in the rewrite of a query without WHERE, the inserted WHERE clause is placed
\* before every LIMIT, ORDER BY and GROUP BY keyword of the caller's SQL: no such keyword
\* precedes the injected WHERE in the effective SQL (stated for queries whose keywords
\* are upper-case, for which the clause is always inserted).
C20_NoKeywordBeforeInjectedWhere ==
    (pc # "idle" /\ NoWhere /\ KeywordsUpperCase /\ Contains(sql, InjectedWhere))
        => \A k \in 1..Len(Keywords) : \A j \in 1..(Find(sql, InjectedWhere) - 1) :
                ~OccursAt(Upper(sql), Keywords[k], j)

(***************************************************************************)
(* _execute_query: fetch, errors and requests (client.py:193-236)          *)
(***************************************************************************)

(* the number of rows of the pages ps, first rows included *)
RECURSIVE TotalRows(_)
TotalRows(ps) == IF ps = <<>> THEN 0 ELSE Len(Head(ps)) + TotalRows(Tail(ps))

NonEmptyPages(ps) == Cardinality({p \in 1..Len(ps) : ps[p] # <<>>})

(* where row r (r >= 2) of page p lands in the returned rows: after the kept rows *)
(* of the pages before it and the kept rows before it in its page                *)
Place(ps, p, r) ==
    LET before == SubSeq(ps, 1, p - 1)
    IN  TotalRows(before) - NonEmptyPages(before) + (r - 1)

\* C13: for a result set of any number of pages, the first row of every page is
\* skipped and all remaining rows are returned in page order then in-page order, each
\* cell decoded as its string value or null; the number of returned rows is the total
\* number of rows across pages minus one per non-empty page.
C13_FetchSkipsFirstRowOfEveryPage ==
    /\ Len(results) = TotalRows(pages) - NonEmptyPages(pages)
    /\ \A p \in 1..Len(pages) : \A r \in 2..Len(pages[p]) :
            LET row == results[Place(pages, p, r)]
                raw == pages[p][r]
            IN  /\ Len(row) = Len(raw)
                /\ \A c \in 1..Len(raw) :
                        row[c] = IF raw[c] = NullCell THEN None ELSE Some(raw[c].VarCharValue)
    /\ pc = "returned" => Len(dicts[1]) = Len(results)

C13_Witness ==
    /\ pc = "returned"
    /\ Len(pages) = MaxPages
    /\ \A p \in 1..Len(pages) : Len(pages[p]) >= 2
    /\ pages[1][1] # HeaderRow
    /\ Len(results) = TotalRows(pages) - Len(pages)
    /\ \E r \in 1..Len(results) : None \in {results[r][c] : c \in 1..Len(results[r])}

(* what the except clause of client.py:233-236 makes of an exception e that is *)
(* neither a QueryError nor an AuthenticationError                             *)
Wrapped(e) == [type |-> "QueryError", msg |-> "Query execution failed: " \o e.msg]

(* the request during which the call's exception was raised *)
RaisedDuring(op) == pc = "raised" /\ thrown # None /\ Last(requests).op = op

\* C14: a failure raised during submit, poll or fetch that is not a QueryError or an
\* AuthenticationError reaches the caller as a QueryError carrying the original message;
\* an AuthenticationError raised during these steps propagates unchanged, and a
\* QueryError propagates unchanged, without being wrapped a second time.
C14_OnlyForeignErrorsAreWrapped ==
    /\ (pc = "raised" /\ thrown # None)
            => IF thrown[1].type \in {"QueryError", "AuthenticationError"}
               THEN error = thrown
               ELSE error = Some(Wrapped(thrown[1]))
    /\ (pc = "raised" /\ thrown = None)
            => error \in {TimeoutError, FailedError}
    /\ thrown # None => pc = "raised"

C14_Witness ==
    /\ RaisedDuring("get_query_results")
    /\ thrown[1].type = "ClientError"
    /\ error[1].msg = "Query execution failed: Throttled"
    /\ CountOps("get_query_execution") >= 2

OneSubmissionThenStatusThenFetch ==
    /\ \A i \in 1..Len(requests) : (requests[i].op = "start_query_execution") <=> (i = 1)
    /\ \A i \in 2..Len(requests) :
            /\ own # None
            /\ requests[i].QueryExecutionId = own[1].id
    /\ \A i, j \in 2..Len(requests) :
            (i < j /\ requests[i].op = "get_query_results")
                => requests[j].op = "get_query_results"

\* C17: for every _execute_query call the requests sent to the query service are exactly
\* one submission, then one or more status checks using the identifier that submission
\* returned, then result fetches only if the last status check reported SUCCEEDED; after
\* a FAILED or CANCELLED status, a timeout or a failed submission nothing more is sent.
C17_OneSubmissionNoRetry ==
    /\ [](/\ OneSubmissionThenStatusThenFetch
          /\ CountOps("get_query_results") > 0
                => /\ Last(observed) = "SUCCEEDED"
                   /\ CountOps("get_query_execution") = Len(observed)
          /\ Ended
                => /\ CountOps("start_query_execution") = 1
                   /\ own # None => CountOps("get_query_execution") >= 1
                   /\ own = None => Len(requests) = 1
          /\ (pc = "raised" /\ error \in {TimeoutError, FailedError} /\ thrown = None)
                => CountOps("get_query_results") = 0)
    /\ [][Ended => (Ended' /\ requests' = requests)]_vars

C17_Witness ==
    /\ pc = "returned"
    /\ CountOps("start_query_execution") = 1
    /\ CountOps("get_query_execution") = 3
    /\ CountOps("get_query_results") = 2
    /\ Last(observed) = "SUCCEEDED"

(***************************************************************************)
(* Termination of a call.  The call is straight-line code around one loop: *)
(* whenever a step of it can be taken it is taken (every external call     *)
(* returns, time.sleep returns), which is weak fairness of each step.      *)
(***************************************************************************)
SpecLive ==
    /\ Init /\ [][Next]_vars
    /\ WF_vars(StartQueryExecution)
    /\ WF_vars(GetQueryExecution)
    /\ WF_vars(CheckTimeout)
    /\ WF_vars(Sleep)
    /\ WF_vars(GetQueryResults)

ApiKeyArgs == {None, Some(""), Some("key")}
EnvValues  == {None, Some(""), Some("envkey")}
Regions    == {"us-east-1", "eu-west-1"}
Databases  == {"cosmological_production", "cosmos_test"}

(* the credential taken from the argument alone *)
CredentialArgOnly(api_key, env) == api_key

(* client.py:44: api_key or os.environ.get("COSMOS_API_KEY") *)
Credential(api_key, env) == IF Truthy(api_key) THEN api_key ELSE env

(* client.py:46-48 *)
ApiKeyRequired ==
    [type |-> "AuthenticationError",
     msg  |-> "API key required. Pass api_key parameter or set COSMOS_API_KEY environment variable."]

(* before CosmosClient(...) is called: no client, no boto3 client, no call *)
InitNew ==
    /\ InitBuilder
    /\ self = None
    /\ ctor = None
    /\ environ \in EnvValues
    /\ boto = <<>>
    /\ pc = "new"
    /\ InitCalls

(* client.py:28-59 *)
__init__(api_key, region, timeout_, database) ==
    /\ pc = "new"
    /\ ctor' = Some([api_key |-> api_key, region |-> region, timeout |-> timeout_,
                     database |-> database])
    /\ IF ~Truthy(Credential(api_key, environ))
       THEN /\ error' = Some(ApiKeyRequired)
            /\ pc' = "failed"
            /\ UNCHANGED <<self, boto>>
       ELSE /\ self' = CosmosClient(Credential(api_key, environ)[1], region, timeout_, database)
            /\ boto' = BotoClients(region)
            /\ pc' = "idle"
            /\ UNCHANGED error
    /\ UNCHANGED <<galaxy_id, query, universe_time, sql, query_id, start_time, now, state,
                   reason, observed, seen_at, results, pages, dicts, requests, thrown, own,
                   environ, cur, other>>
    /\ UNCHANGED bvars

(* a construction, then the start of a first call on the client it made *)
NextConstruct ==
    \/ \E k \in ApiKeyArgs, r \in Regions, t \in Timeouts, db \in Databases :
            __init__(k, r, t, db)
    \/ query_galaxy(<<"g", "1">>, BaseQuery, 0)
    \/ StartQueryExecution

SpecConstruct == InitNew /\ [][NextConstruct]_vars

(* a credential was given: a non-empty api_key argument or environment value *)
HasCredential == Truthy(ctor[1].api_key) \/ Truthy(environ)

C15_Witness ==
    /\ ctor # None
    /\ ~Truthy(ctor[1].api_key)
    /\ self # None /\ self.api_key = "envkey"
    /\ ctor[1].region = "eu-west-1"
    /\ ctor[1].database = "cosmos_test"
    /\ requests # <<>>

Locals ==
    [pc |-> pc, galaxy_id |-> galaxy_id, query |-> query, universe_time |-> universe_time,
     sql |-> sql, query_id |-> query_id, start_time |-> start_time, state |-> state,
     reason |-> reason, observed |-> observed, seen_at |-> seen_at, results |-> results,
     pages |-> pages, dicts |-> dicts, error |-> error, requests |-> requests,
     thrown |-> thrown, own |-> own]

(* a switch that leaves query_id where it is, as if the id were kept on the client *)
SwitchSharedQueryId ==
    /\ cur' = 3 - cur
    /\ other' = Locals
    /\ pc' = other.pc
    /\ galaxy_id' = other.galaxy_id
    /\ query' = other.query
    /\ universe_time' = other.universe_time
    /\ sql' = other.sql
    /\ query_id' = query_id
    /\ start_time' = other.start_time
    /\ state' = other.state
    /\ reason' = other.reason
    /\ observed' = other.observed
    /\ seen_at' = other.seen_at
    /\ results' = other.results
    /\ pages' = other.pages
    /\ dicts' = other.dicts
    /\ error' = other.error
    /\ requests' = other.requests
    /\ thrown' = other.thrown
    /\ own' = other.own
    /\ UNCHANGED <<self, now, ctor, environ, boto>>
    /\ UNCHANGED bvars

(* the other call runs: its locals come in, those of the running call are put aside *)
Switch ==
    /\ cur' = 3 - cur
    /\ other' = Locals
    /\ pc' = other.pc
    /\ galaxy_id' = other.galaxy_id
    /\ query' = other.query
    /\ universe_time' = other.universe_time
    /\ sql' = other.sql
    /\ query_id' = other.query_id
    /\ start_time' = other.start_time
    /\ state' = other.state
    /\ reason' = other.reason
    /\ observed' = other.observed
    /\ seen_at' = other.seen_at
    /\ results' = other.results
    /\ pages' = other.pages
    /\ dicts' = other.dicts
    /\ error' = other.error
    /\ requests' = other.requests
    /\ thrown' = other.thrown
    /\ own' = other.own
    /\ UNCHANGED <<self, now, ctor, environ, boto>>
    /\ UNCHANGED bvars

(* the result set the service holds for an execution: one page, its header first *)
ResultOf(id) ==
    IF id = "q1" THEN <<HeaderRow, <<Cell("sol"), NullCell>> >>
    ELSE <<HeaderRow, <<Cell("sol"), NullCell>>, <<Cell("vega"), Cell("2")>> >>

(* two calls of query_galaxy interleaved, the first for one galaxy and the second  *)
(* for the other; the service answers every request at once, with the state of the *)
(* execution asked for and with its result set; a sleep lasts one second           *)
NextConc ==
    \/ query_galaxy(IF cur = 1 THEN <<"g", "1">> ELSE <<"g", "2">>, BaseQuery, 0)
    \/ StartQueryExecution /\ thrown' = None /\ now' = now
    \/ /\ GetQueryExecution
       /\ thrown' = None
       /\ now' = now
       /\ reason' = None
       /\ state' \in {Some("RUNNING"), Some("SUCCEEDED"), Some("FAILED")}
    \/ CheckTimeout
    \/ Sleep /\ now' = now + 1
    \/ GetQueryResults /\ thrown' = None /\ pages' = <<ResultOf(Last(requests').QueryExecutionId)>>
    \/ Switch

InitConc == Init /\ self.timeout = 1

SpecConc == InitConc /\ [][NextConc]_vars

(* a call, by its locals L, works under the id and the start time of its own submission *)
CallUsesOwn(L) ==
    /\ \A i \in 2..Len(L.requests) :
            /\ L.own # None
            /\ L.requests[i].QueryExecutionId = L.own[1].id
    /\ L.pc = "returned"
            => /\ L.results = DecodePage(ResultOf(L.own[1].id))
               /\ L.dicts = Some(rows_to_dicts(L.results))
    /\ L.own # None => L.start_time = L.own[1].at

\* C19: when two query calls on the same CosmosClient are interleaved, each call polls
\* and fetches only with the execution identifier returned by its own submission and
\* returns only rows fetched under that identifier, its timeout is measured from its
\* own submission, and no call modifies the client's configuration (region, timeout,
\* database, results location).
C19_InterleavedCallsKeepTheirOwn ==
    /\ [](/\ CallUsesOwn(Locals)
          /\ CallUsesOwn(other)
          /\ (own # None /\ other.own # None) => own[1].id # other.own[1].id)
    /\ [][/\ self' = self
          /\ (pc = "check" /\ cur' = cur)
                => /\ (pc' = "raised") <=> (now - own[1].at > self.timeout)
                   /\ pc' = "raised" => error' = TimeoutError]_vars

(* both calls have returned, each submitted before the other's last status check *)
C19_Witness ==
    /\ pc = "returned" /\ other.pc = "returned"
    /\ own[1].at < other.seen_at
    /\ other.own[1].at < seen_at
    /\ results # other.results
    /\ Len(observed) >= 2 /\ Len(other.observed) >= 2

(* one call timed out on its own clock while the other, submitted later, returned *)
C19_WitnessTimeout ==
    /\ pc = "raised" /\ error = TimeoutError
    /\ other.pc = "returned"
    /\ other.own[1].at > own[1].at
    /\ other.seen_at - other.own[1].at <= self.timeout

====
